---- MODULE Spec2Model ----
(***************************************************************************)
(* Model of app_streamlit_final.py: the risk-averse signal rule            *)
(* (generate_risk_averse_signal), the memoized Gemini client               *)
(* (get_gemini_client, get_ai_analysis) and the CHECK BETTING SIGNAL       *)
(* button handler of the Streamlit script.                                 *)
(*                                                                         *)
(* Multipliers are floats in the program.  Here a float is an integer      *)
(* number of hundredths (1.50 is 150), and the float NaN is the value NaN, *)
(* which every ordered comparison answers False for, as in Python.         *)
(***************************************************************************)
EXTENDS Integers, Sequences, FiniteSets, TLC

VARIABLES
    credential,      \* GEMINI_API_KEY is set in the process environment
    cache_resource,  \* st.cache_resource entry of get_gemini_client: "miss", "Client", "None"
    constructions,   \* number of genai.Client() constructions attempted by the process
    client,          \* module global `client` of the current script run
    pc,              \* position of the current script run
    history_string,  \* text area content the run reads, a sequence of text items
    parse,           \* "none" (line 122 not run), "ok", "ValueError"
    history_list,    \* line 122
    signal_message,  \* line 125
    is_bet_signal,   \* line 125
    ai_analysis,     \* line 136
    trace            \* calls made and elements rendered by the current run, in order

vars == <<credential, cache_resource, constructions, client, pc, history_string,
          parse, history_list, signal_message, is_bet_signal, ai_analysis, trace>>

-----------------------------------------------------------------------------
(* Section 1.1: constants, in hundredths for the two multipliers.          *)

LOW_MULTIPLIER_THRESHOLD == 150
HIGH_MULTIPLIER_THRESHOLD == 800
REQUIRED_LOW_STREAK == 7
SAFE_HIGH_STREAK == 20

(* float("nan"): not a hundredths value. *)
NaN == 999999

(* Python's float comparisons: False as soon as one side is NaN. *)
FloatLt(a, b) == a # NaN /\ b # NaN /\ a < b
FloatGe(a, b) == a # NaN /\ b # NaN /\ a >= b

-----------------------------------------------------------------------------
(* Bounds of the explored inputs.                                          *)

MaxShort == 1          \* short histories have 0..MaxShort entries, or 19
MaxLen == 21           \* long histories have 20..MaxLen entries
MaxLow == 8            \* the trailing run of low entries has 0..MaxLow entries
MaxOlder == 1          \* entries put in front of a 20-entry window
MaxConstructions == 2  \* cap of the constructions counter

-----------------------------------------------------------------------------
(* Python sequence helpers.                                                *)

Max(a, b) == IF a >= b THEN a ELSE b

(* s[-n:] *)
LastSlice(s, n) == SubSeq(s, Max(1, Len(s) - n + 1), Len(s))

(* reversed(s) *)
Reversed(s) == [i \in 1..Len(s) |-> s[Len(s) + 1 - i]]

(* A message is the sequence of its lines; a line is its fixed text and    *)
(* the values the f-string substitutes into it.                            *)
Line(text, args) == [text |-> text, args |-> args]

HasLine(message, text) == \E i \in 1..Len(message) : message[i].text = text

LineArgs(message, text) ==
    {message[i].args : i \in {j \in 1..Len(message) : message[j].text = text}}

-----------------------------------------------------------------------------
(* Section 2: generate_risk_averse_signal(history).                        *)

ErrorText == "ERROR: Need at least {SAFE_HIGH_STREAK} rounds of history for safe analysis."
SignalText == "HIGH-TARGET SIGNAL! BET NOW!"
ConditionsText == "Conditions Met (100% accurate rule execution):"
LowStreakText == "1. Low Streak: {low_streak_count} consecutive rounds < {LOW_MULTIPLIER_THRESHOLD}x."
SafetyText == "2. Safety Check: NO multiplier >= {HIGH_MULTIPLIER_THRESHOLD}x recently."
TargetText == "ACTION: Target 3.00x (Aggressive) or 2.00x (Moderate)."
NoSignalText == "NO SIGNAL. DO NOT BET."
ReasonsText == "Reason(s) to Wait:"
LowReasonText == "Low Streak NOT Ready (only {low_streak_count} below {LOW_MULTIPLIER_THRESHOLD}x)."
HighReasonText == "High Variance Detected (a {HIGH_MULTIPLIER_THRESHOLD}x+ hit occurred recently)."
WaitText == "Action: Wait for safety conditions to align."

(* Mutant: the integrity check compares with the streak length. *)
InsufficientDataShortWindow(history) == Len(history) < REQUIRED_LOW_STREAK

(* Line 43. *)
InsufficientData(history) == Len(history) < SAFE_HIGH_STREAK

(* Mutant: <= in place of <. *)
IsLowInclusive(multiplier) ==
    multiplier # NaN /\ multiplier <= LOW_MULTIPLIER_THRESHOLD

(* Line 50. *)
IsLow(multiplier) == FloatLt(multiplier, LOW_MULTIPLIER_THRESHOLD)

(* Lines 49-53: the for loop over an already reversed window, with its break. *)
RECURSIVE ScanLow(_)
ScanLow(window) ==
    IF window = <<>> THEN 0
    ELSE IF IsLow(Head(window)) THEN 1 + ScanLow(Tail(window))
    ELSE 0

(* Mutant: the loop has no break, every low entry of the window counts. *)
low_streak_count_no_break(history) ==
    LET window == LastSlice(history, REQUIRED_LOW_STREAK)
    IN  Cardinality({i \in 1..Len(window) : IsLow(window[i])})

(* Lines 47-53. *)
low_streak_count(history) ==
    ScanLow(Reversed(LastSlice(history, REQUIRED_LOW_STREAK)))

(* Line 54. *)
is_low_streak_ready(history) == low_streak_count(history) >= REQUIRED_LOW_STREAK

(* Mutant: any() runs over the whole history, not over its last 20. *)
high_hit_recently_whole(history) ==
    \E i \in 1..Len(history) : FloatGe(history[i], HIGH_MULTIPLIER_THRESHOLD)

(* Line 57. *)
high_hit_recently(history) ==
    LET window == LastSlice(history, SAFE_HIGH_STREAK)
    IN  \E i \in 1..Len(window) : FloatGe(window[i], HIGH_MULTIPLIER_THRESHOLD)

(* Mutant: the high hit no longer vetoes. *)
SignalDecisionNoVeto(low_ready, high_hit) == low_ready

(* Line 60. *)
SignalDecision(low_ready, high_hit) == low_ready /\ ~high_hit

(* Mutant: if/elif, only the first failed condition is listed. *)
ReasonFirstOnly(low_ready, high_hit, count) ==
    IF ~low_ready
    THEN <<Line(LowReasonText, <<count, LOW_MULTIPLIER_THRESHOLD>>)>>
    ELSE IF high_hit
    THEN <<Line(HighReasonText, <<HIGH_MULTIPLIER_THRESHOLD>>)>>
    ELSE <<>>

(* Lines 72-74. *)
Reason(low_ready, high_hit, count) ==
    (IF ~low_ready
     THEN <<Line(LowReasonText, <<count, LOW_MULTIPLIER_THRESHOLD>>)>>
     ELSE <<>>)
    \o
    (IF high_hit
     THEN <<Line(HighReasonText, <<HIGH_MULTIPLIER_THRESHOLD>>)>>
     ELSE <<>>)

(* Lines 62-68. *)
SignalMessage(count) ==
    << Line(SignalText, <<>>),
       Line(ConditionsText, <<>>),
       Line(LowStreakText, <<count, LOW_MULTIPLIER_THRESHOLD>>),
       Line(SafetyText, <<HIGH_MULTIPLIER_THRESHOLD>>),
       Line(TargetText, <<>>) >>

(* Lines 76-80. *)
NoSignalMessage(reason) ==
    <<Line(NoSignalText, <<>>), Line(ReasonsText, <<>>)>>
    \o reason \o <<Line(WaitText, <<>>)>>

(* Lines 36-81: the (message, is_bet_signal) pair. *)
generate_risk_averse_signal(history) ==
    IF InsufficientData(history)
    THEN [message |-> <<Line(ErrorText, <<SAFE_HIGH_STREAK>>)>>, is_bet_signal |-> FALSE]
    ELSE LET count == low_streak_count(history)
             low_ready == is_low_streak_ready(history)
             high_hit == high_hit_recently(history)
         IN  IF SignalDecision(low_ready, high_hit)
             THEN [message |-> SignalMessage(count), is_bet_signal |-> TRUE]
             ELSE [message |-> NoSignalMessage(Reason(low_ready, high_hit, count)),
                   is_bet_signal |-> FALSE]

-----------------------------------------------------------------------------
(* Section 1.2: the memoized client.                                       *)

InitErrorText == "Error initializing Gemini Client. Please ensure GEMINI_API_KEY is set. Error: {e}"

(* genai.Client(): raises without the credential; with it, it may still raise. *)
ClientConstructs(has_credential) == IF has_credential THEN BOOLEAN ELSE {FALSE}

(* Mutant: only a constructed client is memoized, a failure is tried again. *)
get_gemini_client_retry(cache, constructs) ==
    IF cache # "miss"
    THEN [client |-> cache, cache |-> cache, constructed |-> FALSE]
    ELSE [client |-> IF constructs THEN "Client" ELSE "None",
          cache |-> IF constructs THEN "Client" ELSE "miss",
          constructed |-> TRUE]

(* Lines 19-27: st.cache_resource returns the stored value on a hit; on a  *)
(* miss the body runs once and its return value, None included, is stored. *)
get_gemini_client(cache, constructs) ==
    IF cache # "miss"
    THEN [client |-> cache, cache |-> cache, constructed |-> FALSE]
    ELSE [client |-> IF constructs THEN "Client" ELSE "None",
          cache |-> IF constructs THEN "Client" ELSE "None",
          constructed |-> TRUE]

-----------------------------------------------------------------------------
(* Section 2: get_ai_analysis(history_list, traditional_signal).           *)

UnavailableText == "Gemini AI Analysis is unavailable."
PromptText == "Analyze the sequence: {history_list}. The calculated signal is: '{traditional_signal}'. Based on crash game risk principles, provide a quick 3-4 sentence risk assessment."

(* What generate_content can answer: a response text, or an exception. *)
ResponseTexts == {"Risk is elevated.", "Risk is moderate."}
Exceptions == {"endpoint unreachable", "request rejected"}

(* The f-string of line 99, one string per exception. *)
ApiErrorText(e) ==
    IF e = "endpoint unreachable"
    THEN "Gemini API Error: Could not generate analysis. (endpoint unreachable)"
    ELSE "Gemini API Error: Could not generate analysis. (request rejected)"

Returned(text) == [raised |-> FALSE, text |-> text]
Raised(text) == [raised |-> TRUE, text |-> text]
Unset == [raised |-> FALSE, text |-> ""]

(* Line 86: `not client`. *)
ClientUnavailable(c) == c = "None"

(* Lines 88-90. *)
Prompt(history, traditional_signal) ==
    <<Line(PromptText, history)>> \o traditional_signal

(* Line 97. *)
get_ai_analysis_response(text) == Returned(text)

(* Mutant: no except clause, the fault of generate_content propagates. *)
get_ai_analysis_uncaught(e) == Raised(e)

(* Lines 98-99. *)
get_ai_analysis_except(e) == Returned(ApiErrorText(e))

-----------------------------------------------------------------------------
(* Section 3: input parsing, line 122.  The text is a sequence of items:   *)
(* "," and " " are the separators, any other item is a piece of a token.   *)

FloatTable ==
    ("0.8" :> 80) @@ ("1.49" :> 149) @@ ("1.50" :> 150) @@ ("2.0" :> 200) @@
    ("7.99" :> 799) @@ ("8.00" :> 800) @@ ("9.0" :> 900) @@ ("nan" :> NaN)

(* str.replace(",", " ") *)
Replace(text) == [i \in 1..Len(text) |-> IF text[i] = "," THEN " " ELSE text[i]]

(* str.split(): the maximal runs of items that are not whitespace. *)
RECURSIVE SplitRuns(_, _, _)
SplitRuns(text, current, done) ==
    IF text = <<>>
    THEN IF current = <<>> THEN done ELSE Append(done, current)
    ELSE IF Head(text) = " "
    THEN SplitRuns(Tail(text), <<>>, IF current = <<>> THEN done ELSE Append(done, current))
    ELSE SplitRuns(Tail(text), Append(current, Head(text)), done)

Split(text) == SplitRuns(text, <<>>, <<>>)

(* float(x) accepts a token that is one literal; pieces run together, or a *)
(* piece that is no literal, raise ValueError.                             *)
IsFloat(token) == Len(token) = 1 /\ token[1] \in DOMAIN FloatTable
Float(token) == FloatTable[token[1]]

(* Mutant: a token that is no number is skipped, the others are kept. *)
parse_history_skip_invalid(text) ==
    LET tokens == SelectSeq(Split(Replace(text)), IsFloat)
    IN  [ok |-> TRUE, list |-> [i \in 1..Len(tokens) |-> Float(tokens[i])]]

(* Line 122: the list comprehension, ValueError at the first bad token. *)
parse_history(text) ==
    LET tokens == Split(Replace(text))
    IN  IF \E i \in 1..Len(tokens) : ~IsFloat(tokens[i])
        THEN [ok |-> FALSE, list |-> <<>>]
        ELSE [ok |-> TRUE, list |-> [i \in 1..Len(tokens) |-> Float(tokens[i])]]

(* Mutant: > in place of >=. *)
NeedsCommentaryStrict(history) == Len(history) > SAFE_HIGH_STREAK

(* Line 134. *)
NeedsCommentary(history) == Len(history) >= SAFE_HIGH_STREAK

PasteText == "Please paste the multiplier history to analyze."
InvalidNumbersText == "Error: Please ensure all pasted values are valid numbers."
AssessmentText == "Gemini AI Risk Assessment:"
NeedRoundsText == "Need at least {SAFE_HIGH_STREAK} rounds for full AI analysis."

(* One call made or one element rendered by the script run. *)
Ev(op, message) == [op |-> op, message |-> message]

(* Line 137. *)
AssessmentInfo(analysis) ==
    Ev("st.info", <<Line(AssessmentText, <<>>), Line(analysis.text, <<>>)>>)

-----------------------------------------------------------------------------
(* The texts a user submits: `n` entries of "2.0", the last `k` of them    *)
(* "1.49", one entry `p` (0: none) overwritten with any piece; the entries *)
(* are joined by a comma, a space and a comma with a space in turn.  And a *)
(* few texts with commas only, with spaces only, with no entry, with stray *)
(* separators or with two pieces run together.                             *)

Pieces == DOMAIN FloatTable \cup {"abc"}
Lengths == (0..MaxShort) \cup ((SAFE_HIGH_STREAK - 1)..MaxLen)

Entries(n, k, p, piece) ==
    [i \in 1..n |-> IF i = p THEN piece ELSE IF i > n - k THEN "1.49" ELSE "2.0"]

SeparatorAfter(i) ==
    CASE i % 3 = 1 -> <<",">>
      [] i % 3 = 2 -> <<" ">>
      [] OTHER -> <<",", " ">>

RECURSIVE JoinFrom(_, _)
JoinFrom(entries, i) ==
    IF i > Len(entries) THEN <<>>
    ELSE IF i = Len(entries) THEN <<entries[i]>>
    ELSE <<entries[i]>> \o SeparatorAfter(i) \o JoinFrom(entries, i + 1)

Join(entries) == JoinFrom(entries, 1)

RECURSIVE JoinWith(_, _)
JoinWith(entries, separator) ==
    IF Len(entries) <= 1 THEN entries
    ELSE <<Head(entries)>> \o separator \o JoinWith(Tail(entries), separator)

Inputs ==
    { Join(Entries(n, k, p, piece)) :
        n \in Lengths, k \in 0..MaxLow, p \in 0..MaxLen + 1, piece \in Pieces }
    \cup { JoinWith(Entries(SAFE_HIGH_STREAK, k, 0, "2.0"), separator) :
        k \in 0..MaxLow, separator \in {<<",">>, <<" ">>} }
    \cup { <<>>, <<" ">>, <<",", " ">>, <<"1.49", "2.0">>, <<" ", "2.0", ",">> }

-----------------------------------------------------------------------------
(* State machine.                                                          *)

Init ==
    /\ credential \in BOOLEAN
    /\ cache_resource = "miss"
    /\ constructions = 0
    /\ client = "unset"
    /\ pc = "start"
    /\ history_string = <<>>
    /\ parse = "none"
    /\ history_list = <<>>
    /\ signal_message = <<>>
    /\ is_bet_signal = FALSE
    /\ ai_analysis = Unset
    /\ trace = <<>>

(* Lines 1-114 of one script run: a new run starts with an empty page,     *)
(* obtains the client (line 29) and renders the page head.  The st.error   *)
(* of line 26 belongs to the memoized call and is shown with its result.   *)
ScriptTop ==
    /\ pc \in {"start", "done"}
    /\ cache_resource # "miss" \/ constructions < MaxConstructions
    /\ \E constructs \in ClientConstructs(credential) :
         LET r == get_gemini_client(cache_resource, constructs)
         IN  /\ cache_resource' = r.cache
             /\ client' = r.client
             /\ constructions' = IF r.constructed THEN constructions + 1 ELSE constructions
             /\ trace' = IF r.client = "None"
                         THEN <<Ev("st.error", <<Line(InitErrorText, <<>>)>>)>>
                         ELSE <<>>
    /\ pc' = "button"
    /\ history_string' = <<>>
    /\ parse' = "none"
    /\ history_list' = <<>>
    /\ signal_message' = <<>>
    /\ is_bet_signal' = FALSE
    /\ ai_analysis' = Unset
    /\ UNCHANGED credential

(* Line 116, st.button returns False: the run ends at lines 144-145. *)
NoClick ==
    /\ pc = "button"
    /\ pc' = "done"
    /\ UNCHANGED <<credential, cache_resource, constructions, client, history_string,
                   parse, history_list, signal_message, is_bet_signal, ai_analysis, trace>>

(* Lines 116-142 with the button pressed, up to the end of the run or to   *)
(* the blocking generate_content call of line 93.                          *)
CheckBettingSignal ==
    /\ pc = "button"
    /\ \E text \in Inputs :
         LET parsed == parse_history(text)
             verdict == generate_risk_averse_signal(parsed.list)
             rendered == trace \o
                 << Ev("generate_risk_averse_signal", <<>>),
                    Ev(IF verdict.is_bet_signal THEN "st.success" ELSE "st.error",
                       verdict.message) >>
         IN  /\ history_string' = text
             /\ IF text = <<>>
                THEN /\ trace' = Append(trace, Ev("st.warning", <<Line(PasteText, <<>>)>>))
                     /\ pc' = "done"
                     /\ UNCHANGED <<parse, history_list, signal_message,
                                    is_bet_signal, ai_analysis>>
                ELSE IF ~parsed.ok
                THEN /\ parse' = "ValueError"
                     /\ trace' = Append(trace, Ev("st.error", <<Line(InvalidNumbersText, <<>>)>>))
                     /\ pc' = "done"
                     /\ UNCHANGED <<history_list, signal_message, is_bet_signal, ai_analysis>>
                ELSE /\ parse' = "ok"
                     /\ history_list' = parsed.list
                     /\ signal_message' = verdict.message
                     /\ is_bet_signal' = verdict.is_bet_signal
                     /\ IF ~NeedsCommentary(parsed.list)
                        THEN /\ trace' = Append(rendered,
                                    Ev("st.info", <<Line(NeedRoundsText, <<SAFE_HIGH_STREAK>>)>>))
                             /\ pc' = "done"
                             /\ UNCHANGED ai_analysis
                        ELSE IF ClientUnavailable(client)
                        THEN /\ ai_analysis' = Returned(UnavailableText)
                             /\ trace' = rendered \o
                                    << Ev("get_ai_analysis", <<>>),
                                       AssessmentInfo(Returned(UnavailableText)) >>
                             /\ pc' = "done"
                        ELSE /\ trace' = rendered \o
                                    << Ev("get_ai_analysis", <<>>),
                                       Ev("generate_content",
                                          Prompt(parsed.list, verdict.message)) >>
                             /\ pc' = "awaiting"
                             /\ UNCHANGED ai_analysis
    /\ UNCHANGED <<credential, cache_resource, constructions, client>>

(* Lines 97 and 137: generate_content answers, the commentary is rendered. *)
GenerateContentReturns ==
    /\ pc = "awaiting"
    /\ \E text \in ResponseTexts :
         /\ ai_analysis' = get_ai_analysis_response(text)
         /\ trace' = Append(trace, AssessmentInfo(get_ai_analysis_response(text)))
    /\ pc' = "done"
    /\ UNCHANGED <<credential, cache_resource, constructions, client, history_string,
                   parse, history_list, signal_message, is_bet_signal>>

(* Lines 98-99 and 137: generate_content raises.  An exception that leaves *)
(* get_ai_analysis is no ValueError: it ends the run with an exception     *)
(* box and line 137 is not reached.                                        *)
GenerateContentRaises ==
    /\ pc = "awaiting"
    /\ \E e \in Exceptions :
         LET r == get_ai_analysis_except(e)
         IN  IF r.raised
             THEN /\ trace' = Append(trace, Ev("exception", <<Line(r.text, <<>>)>>))
                  /\ UNCHANGED ai_analysis
             ELSE /\ ai_analysis' = r
                  /\ trace' = Append(trace, AssessmentInfo(r))
    /\ pc' = "done"
    /\ UNCHANGED <<credential, cache_resource, constructions, client, history_string,
                   parse, history_list, signal_message, is_bet_signal>>

Next ==
    \/ ScriptTop
    \/ NoClick
    \/ CheckBettingSignal
    \/ GenerateContentReturns
    \/ GenerateContentRaises

Spec == Init /\ [][Next]_vars

-----------------------------------------------------------------------------
(* Vocabulary of the properties, stated on the history alone.              *)

(* The positions of the last n entries of a history of at least n entries. *)
LastPositions(history, n) == (Len(history) - n + 1)..Len(history)

BelowLow(x) == x # NaN /\ x < LOW_MULTIPLIER_THRESHOLD
AtLeastHigh(x) == x # NaN /\ x >= HIGH_MULTIPLIER_THRESHOLD

(* The longest run of entries < 1.50 that ends at the most recent entry,   *)
(* capped at 7, of a history of at least 7 entries.                        *)
TrailingLowRun(history) ==
    LET runs == { c \in 0..REQUIRED_LOW_STREAK :
                    \A i \in LastPositions(history, c) : BelowLow(history[i]) }
    IN  CHOOSE c \in runs : \A d \in runs : d <= c

HighInLast20(history) ==
    \E i \in LastPositions(history, SAFE_HIGH_STREAK) : AtLeastHigh(history[i])

Ops(ops) == {i \in 1..Len(trace) : trace[i].op \in ops}

(* The verdict as the handler renders it, lines 128-131. *)
VerdictEvent ==
    Ev(IF is_bet_signal THEN "st.success" ELSE "st.error", signal_message)

(* The tokens of the submitted text. *)
SubmittedTokens == Split(Replace(history_string))

-----------------------------------------------------------------------------
(* C1: evaluate returns isSignal = true if and only if the history has at  *)
(* least 20 entries, each of its last 7 entries is < 1.50 and none of its  *)
(* last 20 entries is >= 8.00; a high value in the last 20 vetoes the      *)
(* signal even when the last 7 entries are all < 1.50.                     *)
C1_SignalIffBothConditions ==
    parse = "ok" =>
        (is_bet_signal <=>
            /\ Len(history_list) >= 20
            /\ \A i \in LastPositions(history_list, 7) : BelowLow(history_list[i])
            /\ ~HighInLast20(history_list))

(* A low streak of 7 vetoed by a high value further back in the last 20. *)
C1_Witness ==
    /\ parse = "ok"
    /\ Len(history_list) >= 20
    /\ \A i \in LastPositions(history_list, 7) : BelowLow(history_list[i])
    /\ HighInLast20(history_list)
    /\ ~is_bet_signal

(* C2: for a history of fewer than 20 entries, the empty one included,     *)
(* evaluate returns isSignal = false and exactly the insufficient-data     *)
(* message naming the 20-entry minimum, whatever the entries are: no line  *)
(* of the low-streak or of the high-safety check is part of the result.    *)
C2_ShortHistoryInsufficientData ==
    (parse = "ok" /\ Len(history_list) < 20) =>
        /\ ~is_bet_signal
        /\ signal_message = <<Line(ErrorText, <<20>>)>>

(* 19 entries that would pass both checks. *)
C2_Witness ==
    /\ parse = "ok"
    /\ Len(history_list) = 19
    /\ \A i \in LastPositions(history_list, 7) : BelowLow(history_list[i])
    /\ \A i \in 1..19 : ~AtLeastHigh(history_list[i])
    /\ signal_message = <<Line(ErrorText, <<20>>)>>

(* C3: in a history of at least 20 entries, an entry equal to 1.50 among   *)
(* the last 7 never yields a signal and, when it is the most recent entry, *)
(* leaves the streak count at 0; an entry equal to 8.00 among the last 20  *)
(* is a high hit: no signal, and the high-variance reason is given.        *)
C3_ThresholdBoundaries ==
    (parse = "ok" /\ Len(history_list) >= 20) =>
        /\ (\E i \in LastPositions(history_list, 7) : history_list[i] = 150)
              => ~is_bet_signal /\ HasLine(signal_message, LowReasonText)
        /\ history_list[Len(history_list)] = 150
              => LineArgs(signal_message, LowReasonText) = {<<0, 150>>}
        /\ (\E i \in LastPositions(history_list, 20) : history_list[i] = 800)
              => ~is_bet_signal /\ HasLine(signal_message, HighReasonText)

(* Only the 1.50 stands between the history and a signal. *)
C3_Witness ==
    /\ parse = "ok"
    /\ Len(history_list) >= 20
    /\ \E i \in LastPositions(history_list, 7) :
         /\ history_list[i] = 150
         /\ \A j \in LastPositions(history_list, 7) \ {i} : BelowLow(history_list[j])
    /\ ~HighInLast20(history_list)
    /\ ~is_bet_signal

(* C4: for a history of at least 20 entries the low-streak count is the    *)
(* length of the longest run of entries < 1.50 ending at the most recent   *)
(* entry, capped at 7; it is in 0..7, it is 0 when the most recent entry   *)
(* is not < 1.50, low entries behind the first disqualifying entry are not *)
(* counted, and the count a message reports is that count: 7 in a signal   *)
(* message.                                                                *)
C4_LowStreakCount ==
    (parse = "ok" /\ Len(history_list) >= 20) =>
        LET count == low_streak_count(history_list)
            reported == LineArgs(signal_message, LowStreakText)
                        \cup LineArgs(signal_message, LowReasonText)
        IN  /\ count = TrailingLowRun(history_list)
            /\ count \in 0..7
            /\ ~BelowLow(history_list[Len(history_list)]) => count = 0
            /\ reported \subseteq {<<count, 150>>}
            /\ is_bet_signal => reported = {<<7, 150>>}

(* Two low entries, then a disqualifying entry with low entries behind it. *)
C4_Witness ==
    /\ parse = "ok"
    /\ Len(history_list) >= 20
    /\ LET n == Len(history_list)
       IN  /\ BelowLow(history_list[n]) /\ BelowLow(history_list[n - 1])
           /\ ~BelowLow(history_list[n - 2])
           /\ \A i \in (n - 6)..(n - 3) : BelowLow(history_list[i])
    /\ LineArgs(signal_message, LowReasonText) = {<<2, 150>>}

(* C5: for a history of at least 20 entries with isSignal = false, the     *)
(* message gives the low-streak reason, with the streak count, if and only *)
(* if the count is below 7, and the high-variance reason if and only if an *)
(* entry of the last 20 is >= 8.00; at least one reason is given, and both *)
(* when both conditions fail.                                              *)
C5_ReasonsListFailedConditions ==
    (parse = "ok" /\ Len(history_list) >= 20 /\ ~is_bet_signal) =>
        /\ HasLine(signal_message, NoSignalText)
        /\ HasLine(signal_message, LowReasonText) <=> TrailingLowRun(history_list) < 7
        /\ LineArgs(signal_message, LowReasonText)
              \subseteq {<<TrailingLowRun(history_list), 150>>}
        /\ HasLine(signal_message, HighReasonText) <=> HighInLast20(history_list)
        /\ HasLine(signal_message, LowReasonText) \/ HasLine(signal_message, HighReasonText)

(* Both conditions fail and both reasons are given. *)
C5_Witness ==
    /\ parse = "ok"
    /\ Len(history_list) >= 20
    /\ TrailingLowRun(history_list) < 7
    /\ HighInLast20(history_list)
    /\ HasLine(signal_message, LowReasonText)
    /\ HasLine(signal_message, HighReasonText)

(* C6: the client is constructed at most once per process; once the        *)
(* construction has failed the handle stays unavailable, no later run      *)
(* constructs again, and every get_ai_analysis call returns the fixed      *)
(* unavailability string without a generate_content request.               *)
C6_UnavailableClientIsMemoized ==
    /\ [](constructions <= 1)
    /\ [](cache_resource = "None" =>
            /\ client = "None"
            /\ Ops({"generate_content"}) = {}
            /\ pc # "awaiting"
            /\ Ops({"get_ai_analysis"}) # {} =>
                  /\ ai_analysis = Returned(UnavailableText)
                  /\ trace[Len(trace)] = AssessmentInfo(Returned(UnavailableText)))
    /\ [][cache_resource = "None" =>
            cache_resource' = "None" /\ constructions' = constructions]_vars

(* A commentary call answered with the unavailability string. *)
C6_Witness ==
    /\ cache_resource = "None"
    /\ constructions = 1
    /\ parse = "ok"
    /\ Len(history_list) >= 20
    /\ Ops({"get_ai_analysis"}) # {}
    /\ ai_analysis = Returned(UnavailableText)

(* C7: when the input parses, the verdict is rendered, and rendered before *)
(* get_ai_analysis is called and before the request is made; whatever the  *)
(* commentary outcome, get_ai_analysis returns a string that is rendered,  *)
(* no fault leaves it, and the rendered verdict and isSignal stay those    *)
(* evaluate returned.                                                      *)
C7_VerdictRenderedCommentaryNeverFaults ==
    parse = "ok" =>
        /\ signal_message = generate_risk_averse_signal(history_list).message
        /\ is_bet_signal = generate_risk_averse_signal(history_list).is_bet_signal
        /\ \E i \in 1..Len(trace) :
              /\ trace[i] = VerdictEvent
              /\ \A j \in Ops({"get_ai_analysis", "generate_content"}) : i < j
              /\ Ops({"st.success", "st.error"}) \ {i}
                    \subseteq {j \in Ops({"st.error"}) : trace[j].message[1].text = InitErrorText}
        /\ Ops({"exception"}) = {}
        /\ (pc = "done" /\ Ops({"get_ai_analysis"}) # {}) =>
              /\ ~ai_analysis.raised
              /\ ai_analysis.text \in
                    ResponseTexts \cup {UnavailableText} \cup {ApiErrorText(e) : e \in Exceptions}
              /\ trace[Len(trace)] = AssessmentInfo(ai_analysis)

(* A signal rendered, then the request failed and the fallback rendered. *)
C7_Witness ==
    /\ pc = "done"
    /\ parse = "ok"
    /\ is_bet_signal
    /\ Ops({"generate_content"}) # {}
    /\ ai_analysis = Returned(ApiErrorText("endpoint unreachable"))

(* C8: if a token of the submitted text is no valid number the submission  *)
(* is rejected: the rejected-input message is shown, evaluate is not       *)
(* called, no verdict is rendered and no commentary is requested, however  *)
(* many valid tokens precede or follow it.                                 *)
C8_InvalidTokenRejectsSubmission ==
    LET tokens == SubmittedTokens
    IN  (\E i \in 1..Len(tokens) : ~IsFloat(tokens[i])) =>
        /\ parse = "ValueError"
        /\ pc = "done"
        /\ trace[Len(trace)] = Ev("st.error", <<Line(InvalidNumbersText, <<>>)>>)
        /\ Ops({"generate_risk_averse_signal", "st.success", "st.info",
                "get_ai_analysis", "generate_content"}) = {}
        /\ \A i \in Ops({"st.error"}) :
              trace[i].message[1].text \in {InitErrorText, InvalidNumbersText}
        /\ signal_message = <<>>
        /\ history_list = <<>>
        /\ ai_analysis = Unset

(* One bad token with valid tokens before and after it, 20 or more in all. *)
C8_Witness ==
    /\ parse = "ValueError"
    /\ Len(SubmittedTokens) >= 20
    /\ \E i \in 2..(Len(SubmittedTokens) - 1) :
         /\ ~IsFloat(SubmittedTokens[i])
         /\ \A j \in 1..Len(SubmittedTokens) : j # i => IsFloat(SubmittedTokens[j])

(* C9: when the input parses, get_ai_analysis is called, and the external  *)
(* request can be made, if and only if the parsed history has at least 20  *)
(* entries; with fewer, the not-enough-data verdict is rendered, no        *)
(* commentary step runs and the need-20-rounds notice is shown instead.    *)
C9_CommentaryIffTwentyEntries ==
    parse = "ok" =>
        /\ Ops({"get_ai_analysis"}) # {} <=> Len(history_list) >= 20
        /\ Ops({"generate_content"}) # {} => Len(history_list) >= 20
        /\ (Len(history_list) >= 20 /\ client = "Client") => Ops({"generate_content"}) # {}
        /\ Len(history_list) < 20 =>
              /\ \E i \in 1..Len(trace) :
                    trace[i] = Ev("st.error", <<Line(ErrorText, <<20>>)>>)
              /\ trace[Len(trace)] = Ev("st.info", <<Line(NeedRoundsText, <<20>>)>>)
              /\ ai_analysis = Unset
              /\ pc = "done"
        /\ Len(history_list) >= 20 =>
              \A i \in 1..Len(trace) : trace[i].message # <<Line(NeedRoundsText, <<20>>)>>

(* Exactly 20 entries: the request is made. *)
C9_Witness ==
    /\ parse = "ok"
    /\ Len(history_list) = 20
    /\ Ops({"generate_content"}) # {}
    /\ pc = "awaiting"

(* Entries in front of a 20-entry window. *)
OlderValues == {149, 200, 800, NaN}
Olders == UNION {[1..m -> OlderValues] : m \in 0..MaxOlder}

(* C10: evaluate depends on the last 20 entries only: any history of at    *)
(* least 20 entries with the same last 20 entries, whatever its older      *)
(* entries, gets the message and isSignal the submitted history got; and   *)
(* the history evaluated is left as it was parsed.                         *)
C10_DependsOnLast20Only ==
    (parse = "ok" /\ Len(history_list) >= 20) =>
        /\ history_list = parse_history(history_string).list
        /\ \A older \in Olders :
              LET other == generate_risk_averse_signal(older \o LastSlice(history_list, 20))
              IN  /\ other.message = signal_message
                  /\ other.is_bet_signal = is_bet_signal

(* A value >= 8.00 at position 21 from the end, and a signal. *)
C10_Witness ==
    /\ parse = "ok"
    /\ Len(history_list) = 21
    /\ AtLeastHigh(history_list[1])
    /\ is_bet_signal

====
